---------------------------- MODULE Spec2Model ----------------------------
(***************************************************************************)
(* A model of the Twilio media-stream bridge                               *)
(* (tests/websocket_server/twilio_call_server.py, handle_call): one        *)
(* websocket connection, its audio output stream, the two per-track frame  *)
(* buffers and the frames written to the output stream.  The second half   *)
(* of the module models the conversation actions of                        *)
(* vocode/streaming/action, each under a specification of its own.         *)
(*                                                                         *)
(* One connection is one run of handle_call.  pc is the handler's position:*)
(*   "open"     lines 31-37, opening and starting the output stream        *)
(*   "recv"     line 44, suspended in `async for message in websocket`     *)
(*   "sync"     line 76, the test of the pairing loop                      *)
(*   "fill"     lines 93/99, the test of the zero-padding branches         *)
(*   "fill_in"  line 94, the loop that pads inbound frames                 *)
(*   "fill_out" line 100, the loop that pads outbound frames               *)
(*   "finally"  lines 119-124                                              *)
(*   "done"     handle_call has returned                                   *)
(***************************************************************************)
EXTENDS Integers, Sequences, FiniteSets, TLC

\* ------------------------------------------------------------------ bounds

\* The number of websocket messages one connection delivers in the model.
MaxMsgs == 3

\* ------------------------------------------------------- program constants

\* audioop.ulaw2lin(audio_data, 2): two bytes per decoded sample.
SampleWidth == 2

\* ------------------------------------------------------------ payload text

(***************************************************************************)
(* A payload is base64 text, written as the sequence of its characters'    *)
(* alphabet indices: A-Z 0..25, a-z 26..51, 0-9 52..61, + 62, / 63, and 64 *)
(* for the padding character =.                                            *)
(***************************************************************************)
PayloadOne == <<63, 32, 64, 64>>      \* "/g==": the byte FE
PayloadTwo == <<63, 47, 52, 64>>      \* "/v0=": the bytes FE FD
PayloadEmpty == <<>>                  \* "": no bytes
PayloadBad == <<63, 32, 64>>          \* "/g=": incorrect padding

Payloads == {PayloadOne, PayloadTwo, PayloadEmpty, PayloadBad}

(***************************************************************************)
(* base64.b64decode(payload), as binascii.a2b_base64 computes it in its    *)
(* non-strict mode: quad is the position in the current group of four      *)
(* characters, left the bits carried over, pads the padding characters     *)
(* seen since the last data character.  A padding sequence that completes  *)
(* a group ends the decoding; data left in an incomplete group is an       *)
(* error (binascii.Error).                                                 *)
(***************************************************************************)
RECURSIVE B64Scan(_, _, _, _, _, _)
B64Scan(p, i, quad, left, pads, out) ==
    IF i > Len(p)
    THEN [ok |-> (quad = 0), bytes |-> IF quad = 0 THEN out ELSE <<>>]
    ELSE LET c == p[i] IN
         IF c = 64
         THEN IF quad >= 2 /\ quad + pads + 1 >= 4
              THEN [ok |-> TRUE, bytes |-> out]
              ELSE B64Scan(p, i + 1, quad, left,
                           IF quad >= 2 THEN pads + 1 ELSE pads, out)
         ELSE CASE quad = 0 -> B64Scan(p, i + 1, 1, c, 0, out)
                [] quad = 1 -> B64Scan(p, i + 1, 2, c % 16, 0,
                                       Append(out, left * 4 + c \div 16))
                [] quad = 2 -> B64Scan(p, i + 1, 3, c % 4, 0,
                                       Append(out, left * 16 + c \div 4))
                [] OTHER    -> B64Scan(p, i + 1, 0, 0, 0,
                                       Append(out, left * 64 + c))

B64Decode(p) == B64Scan(p, 1, 0, 0, 0, <<>>)

(***************************************************************************)
(* audioop.ulaw2lin(data, 2) on one byte: the G.711 mu-law expansion to a  *)
(* signed 16-bit sample.  The byte is complemented, then split into sign,  *)
(* exponent and mantissa.  With width 2 the call raises for no input.      *)
(***************************************************************************)
Pow2(n) == CASE n = 0 -> 1 [] n = 1 -> 2 [] n = 2 -> 4 [] n = 3 -> 8
             [] n = 4 -> 16 [] n = 5 -> 32 [] n = 6 -> 64 [] OTHER -> 128

Ulaw2LinSample(b) ==
    LET u == 255 - b
        sign == u \div 128
        exponent == (u \div 16) % 8
        mantissa == u % 16
        t == (mantissa * 8 + 132) * Pow2(exponent)
    IN  IF sign = 1 THEN 132 - t ELSE t - 132

\* np.frombuffer(audioop.ulaw2lin(audio_data, 2), dtype=np.int16)
Ulaw2Lin(bytes) == [i \in 1..Len(bytes) |-> Ulaw2LinSample(bytes[i])]

\* ---------------------------------------------------------------- messages

(***************************************************************************)
(* A websocket message as handle_call reads it: json says whether          *)
(* json.loads accepts it, event is data['event'] ("" when the key is       *)
(* absent), hasMedia and hasPayload say whether data['media'] and          *)
(* data['media']['payload'] exist, track is data['media']['track'] with    *)
(* "<absent>" for a missing key.                                           *)
(***************************************************************************)
Msg(j, e, hm, t, hp, p) ==
    [json |-> j, event |-> e, hasMedia |-> hm, track |-> t,
     hasPayload |-> hp, payload |-> p]

NoMessage == Msg(FALSE, "", FALSE, "<absent>", FALSE, <<>>)
NotJson == Msg(FALSE, "<text>", FALSE, "<absent>", FALSE, <<>>)
NoEvent == Msg(TRUE, "", FALSE, "<absent>", FALSE, <<>>)
ControlEvent(e) == Msg(TRUE, e, FALSE, "<absent>", FALSE, <<>>)
MediaNoBody == Msg(TRUE, "media", FALSE, "<absent>", FALSE, <<>>)
MediaNoPayload(t) == Msg(TRUE, "media", TRUE, t, FALSE, <<>>)
Media(t, p) == Msg(TRUE, "media", TRUE, t, TRUE, p)

TrackLabels == {"inbound", "outbound", "both_tracks", "<absent>"}

Messages ==
    {NotJson, NoEvent, MediaNoBody}
    \cup {ControlEvent(e) : e \in {"connected", "start", "stop"}}
    \cup {MediaNoPayload(t) : t \in {"inbound"}}
    \cup {Media(t, p) : t \in TrackLabels, p \in Payloads}

\* data['media'].get('track', 'unknown')
TrackOf(m) == IF m.track = "<absent>" THEN "unknown" ELSE m.track

(***************************************************************************)
(* Lines 46-61 for a media message: what the decoding yields.  "raise" is  *)
(* an exception that the handler at line 111 catches (KeyError for a       *)
(* missing key, binascii.Error for bad base64); otherwise the decoded      *)
(* frame, which is empty for an empty payload.                             *)
(***************************************************************************)
Decode(m) ==
    IF ~m.hasMedia \/ ~m.hasPayload
    THEN [outcome |-> "raise", frame |-> <<>>]
    ELSE LET d == B64Decode(m.payload) IN
         IF ~d.ok THEN [outcome |-> "raise", frame |-> <<>>]
         ELSE [outcome |-> "frame", frame |-> Ulaw2Lin(d.bytes)]

\* ------------------------------------------------------------------ frames

\* np.zeros(n, dtype=np.int16)
Zeros(n) == [i \in 1..n |-> 0]

\* chunk[:n]
Truncate(chunk, n) == SubSeq(chunk, 1, n)

\* A variant with the two columns exchanged.
ColumnStack_Swapped(left, right) ==
    [i \in 1..Len(left) |-> <<right[i], left[i]>>]

\* np.column_stack((left, right)) of two arrays of one length: one row
\* <<left sample, right sample>> per frame.
ColumnStack(left, right) == [i \in 1..Len(left) |-> <<left[i], right[i]>>]

Min(a, b) == IF a <= b THEN a ELSE b

\* A variant in which the frame taken stays in the list.
Rest_Keeps(buffer) == buffer

\* buffer.pop(0) leaves the rest of the list.
Rest(buffer) == SubSeq(buffer, 2, Len(buffer))

\* The stereo frame of one pairing step, lines 78-87.
PairedAudio(inbound_chunk, outbound_chunk) ==
    LET min_length == Min(Len(inbound_chunk), Len(outbound_chunk)) IN
    ColumnStack(Truncate(inbound_chunk, min_length),
                Truncate(outbound_chunk, min_length))

\* The stereo frame of an inbound frame padded with silence, lines 96-97.
InboundPadded(inbound_chunk) ==
    ColumnStack(inbound_chunk, Zeros(Len(inbound_chunk)))

\* A variant that puts the silence in the right channel.
OutboundPadded_SilentRight(outbound_chunk) ==
    ColumnStack(outbound_chunk, Zeros(Len(outbound_chunk)))

\* The stereo frame of an outbound frame padded with silence, lines 102-103.
OutboundPadded(outbound_chunk) ==
    ColumnStack(Zeros(Len(outbound_chunk)), outbound_chunk)

\* ------------------------------------------------------------------- state

VARIABLES
    pc,               \* the handler's position
    stream,           \* the output stream: "none", "open", "active", "closed"
    releases,         \* how many times lines 121-122 have stopped and closed it
    inbound_buffer,   \* list of decoded inbound frames
    outbound_buffer,  \* list of decoded outbound frames
    message,          \* the message the loop variable holds
    written,          \* the stereo frames stream.write has accepted, in order
    nmsgs,            \* messages received so far
    seenStart,        \* a 'start' event has been received
    seenStop,         \* a 'stop' event has been received
    taken,            \* bytes popped from each buffer so far
    fills,            \* how many times a zero-padding branch has been entered
    writeFailed,      \* some stream.write has raised
    act               \* the run of a conversation action or of a function
                      \* under its own specification; Idle in handle_call's

vars == <<pc, stream, releases, inbound_buffer, outbound_buffer, message,
          written, nmsgs, seenStart, seenStop, taken, fills, writeFailed,
          act>>

\* No action is running.
Idle == [name |-> "idle"]

\* The variables of handle_call.
connection == <<pc, stream, releases, inbound_buffer, outbound_buffer,
                message, written, nmsgs, seenStart, seenStop, taken, fills,
                writeFailed>>

buffers == <<inbound_buffer, outbound_buffer>>
history == <<seenStart, seenStop>>

\* handle_call has just been entered: nothing is open, nothing is buffered.
Entered ==
    /\ pc = "open"
    /\ stream = "none"
    /\ releases = 0
    /\ inbound_buffer = <<>>
    /\ outbound_buffer = <<>>
    /\ message = NoMessage
    /\ written = <<>>
    /\ nmsgs = 0
    /\ seenStart = FALSE
    /\ seenStop = FALSE
    /\ taken = [inbound |-> 0, outbound |-> 0]
    /\ fills = 0
    /\ writeFailed = FALSE

Init ==
    /\ Entered
    /\ act = Idle

\* ----------------------------------------------------------------- actions

(***************************************************************************)
(* Lines 31-37.  sd.OutputStream(...) opens the stream and stream.start()  *)
(* starts it; either may raise, and then handle_call logs and returns.     *)
(***************************************************************************)
OpenStream ==
    /\ pc = "open"
    /\ UNCHANGED act
    /\ \E outcome \in {"open_raises", "start_raises", "started"} :
          /\ stream' = CASE outcome = "open_raises" -> "none"
                         [] outcome = "start_raises" -> "open"
                         [] OTHER -> "active"
          /\ pc' = IF outcome = "started" THEN "recv" ELSE "done"
    /\ UNCHANGED <<releases, buffers, message, written, nmsgs, history,
                   taken, fills, writeFailed>>

(***************************************************************************)
(* Lines 44-73 and 105-112: the next message arrives and is dispatched.    *)
(* A media message is decoded and its frame appended to the buffer of its  *)
(* track, after which the handler goes on to line 76; every other message, *)
(* and a media message that raises or names no known track, is logged and  *)
(* the loop takes the next message.                                        *)
(***************************************************************************)
\* A variant of the track dispatch whose last branch is a plain `else`.
AppendsTo_ElseOutbound(m) ==
    IF m.json /\ m.event = "media" /\ Decode(m).outcome = "frame"
    THEN IF TrackOf(m) = "inbound" THEN "inbound" ELSE "outbound"
    ELSE "none"

AppendsTo(m) ==
    IF m.json /\ m.event = "media" /\ Decode(m).outcome = "frame"
       /\ TrackOf(m) \in {"inbound", "outbound"}
    THEN TrackOf(m) ELSE "none"

\* A variant that takes the next message while a frame is still waiting to
\* be written.
Receive_WhileWriting ==
    /\ pc \in {"recv", "fill_in", "fill_out"}
    /\ UNCHANGED act
    /\ nmsgs < MaxMsgs
    /\ \E m \in Messages :
          /\ message' = m
          /\ inbound_buffer' = IF AppendsTo(m) = "inbound"
                               THEN Append(inbound_buffer, Decode(m).frame)
                               ELSE inbound_buffer
          /\ outbound_buffer' = IF AppendsTo(m) = "outbound"
                                THEN Append(outbound_buffer, Decode(m).frame)
                                ELSE outbound_buffer
          /\ pc' = IF AppendsTo(m) = "none" THEN pc ELSE "sync"
          /\ seenStart' = (seenStart \/ (m.json /\ m.event = "start"))
          /\ seenStop' = (seenStop \/ (m.json /\ m.event = "stop"))
    /\ nmsgs' = nmsgs + 1
    /\ UNCHANGED <<stream, releases, written, taken, fills, writeFailed>>

Receive ==
    /\ pc = "recv"
    /\ UNCHANGED act
    /\ nmsgs < MaxMsgs
    /\ \E m \in Messages :
          /\ message' = m
          /\ inbound_buffer' = IF AppendsTo(m) = "inbound"
                               THEN Append(inbound_buffer, Decode(m).frame)
                               ELSE inbound_buffer
          /\ outbound_buffer' = IF AppendsTo(m) = "outbound"
                                THEN Append(outbound_buffer, Decode(m).frame)
                                ELSE outbound_buffer
          /\ pc' = IF AppendsTo(m) = "none" THEN "recv" ELSE "sync"
          /\ seenStart' = (seenStart \/ (m.json /\ m.event = "start"))
          /\ seenStop' = (seenStop \/ (m.json /\ m.event = "stop"))
    /\ nmsgs' = nmsgs + 1
    /\ UNCHANGED <<stream, releases, written, taken, fills, writeFailed>>

(***************************************************************************)
(* stream.write(stereo_audio) at lines 89, 98 and 104: the stream accepts  *)
(* the frame, or the call raises and the handler at line 111 logs the      *)
(* error, after which the loop takes the next message.                     *)
(***************************************************************************)
Write(stereo_audio, accepted, next) ==
    /\ written' = IF accepted THEN Append(written, stereo_audio) ELSE written
    /\ writeFailed' = (writeFailed \/ ~accepted)
    /\ pc' = IF accepted THEN next ELSE "recv"

\* Bytes of one popped frame.
FrameBytes(chunk) == SampleWidth * Len(chunk)

(***************************************************************************)
(* Lines 76-89: one test of `while inbound_buffer and outbound_buffer`     *)
(* and, when it succeeds, one pass of the body.                            *)
(***************************************************************************)
\* A variant of the handler that neither pairs nor pads.
Synchronize_Skipped ==
    /\ pc = "sync"
    /\ pc' = "recv"
    /\ UNCHANGED <<stream, releases, buffers, message, written, nmsgs,
                   history, taken, fills, writeFailed, act>>

Synchronize ==
    /\ pc = "sync"
    /\ UNCHANGED act
    /\ IF inbound_buffer # <<>> /\ outbound_buffer # <<>>
       THEN /\ inbound_buffer' = Rest(inbound_buffer)
            /\ outbound_buffer' = Rest(outbound_buffer)
            /\ taken' = [inbound |-> taken.inbound
                                       + FrameBytes(Head(inbound_buffer)),
                         outbound |-> taken.outbound
                                       + FrameBytes(Head(outbound_buffer))]
            /\ \E accepted \in BOOLEAN :
                  Write(PairedAudio(Head(inbound_buffer),
                                    Head(outbound_buffer)), accepted, "sync")
       ELSE /\ pc' = "fill"
            /\ UNCHANGED <<buffers, taken, written, writeFailed>>
    /\ UNCHANGED <<stream, releases, message, nmsgs, history, fills>>

(***************************************************************************)
(* Lines 93 and 99: which zero-padding branch, if any, is entered.         *)
(***************************************************************************)
\* A variant of the handler without the zero-padding branches.
FillBranch_Skipped == "recv"

\* A variant that pads inbound frames only and leaves outbound frames
\* buffered.
FillBranch_InboundOnly ==
    CASE inbound_buffer # <<>> /\ outbound_buffer = <<>> -> "fill_in"
      [] OTHER -> "recv"

FillBranch ==
    CASE inbound_buffer # <<>> /\ outbound_buffer = <<>> -> "fill_in"
      [] outbound_buffer # <<>> /\ inbound_buffer = <<>> -> "fill_out"
      [] OTHER -> "recv"

ChooseFill ==
    /\ pc = "fill"
    /\ UNCHANGED act
    /\ pc' = FillBranch
    /\ fills' = IF FillBranch = "recv" THEN fills ELSE fills + 1
    /\ UNCHANGED <<stream, releases, buffers, message, written, nmsgs,
                   history, taken, writeFailed>>

(***************************************************************************)
(* Lines 94-98: one test of `while inbound_buffer` and one pass of its     *)
(* body, which pops an inbound frame and writes it with a silent right     *)
(* channel.                                                                *)
(***************************************************************************)
FillInbound ==
    /\ pc = "fill_in"
    /\ UNCHANGED act
    /\ IF inbound_buffer # <<>>
       THEN /\ inbound_buffer' = Rest(inbound_buffer)
            /\ taken' = [taken EXCEPT !.inbound =
                             @ + FrameBytes(Head(inbound_buffer))]
            /\ \E accepted \in BOOLEAN :
                  Write(InboundPadded(Head(inbound_buffer)), accepted,
                        "fill_in")
       ELSE /\ pc' = "recv"
            /\ UNCHANGED <<inbound_buffer, taken, written, writeFailed>>
    /\ UNCHANGED <<stream, releases, outbound_buffer, message, nmsgs,
                   history, fills>>

(***************************************************************************)
(* Lines 100-104: the same for outbound frames, with a silent left         *)
(* channel.                                                                *)
(***************************************************************************)
FillOutbound ==
    /\ pc = "fill_out"
    /\ UNCHANGED act
    /\ IF outbound_buffer # <<>>
       THEN /\ outbound_buffer' = Rest(outbound_buffer)
            /\ taken' = [taken EXCEPT !.outbound =
                             @ + FrameBytes(Head(outbound_buffer))]
            /\ \E accepted \in BOOLEAN :
                  Write(OutboundPadded(Head(outbound_buffer)), accepted,
                        "fill_out")
       ELSE /\ pc' = "recv"
            /\ UNCHANGED <<outbound_buffer, taken, written, writeFailed>>
    /\ UNCHANGED <<stream, releases, inbound_buffer, message, nmsgs,
                   history, fills>>

(***************************************************************************)
(* Lines 44 and 113-118: the iteration over the websocket ends, because    *)
(* the peer closed the connection normally or abnormally or because of an  *)
(* unexpected error; every one of them leads to the finally block.  The    *)
(* handler awaits nothing inside the loop body, so this happens only while *)
(* it waits for a message.                                                 *)
(***************************************************************************)
ConnectionEnds ==
    /\ pc = "recv"
    /\ UNCHANGED act
    /\ pc' = "finally"
    /\ UNCHANGED <<stream, releases, buffers, message, written, nmsgs,
                   history, taken, fills, writeFailed>>

(***************************************************************************)
(* Lines 119-124: stream.stop() and stream.close().                        *)
(***************************************************************************)
Finally ==
    /\ pc = "finally"
    /\ UNCHANGED act
    /\ stream' = "closed"
    /\ releases' = releases + 1
    /\ pc' = "done"
    /\ UNCHANGED <<buffers, message, written, nmsgs, history, taken,
                   fills, writeFailed>>

Next ==
    \/ OpenStream
    \/ Receive
    \/ Synchronize
    \/ ChooseFill
    \/ FillInbound
    \/ FillOutbound
    \/ ConnectionEnds
    \/ Finally

Spec == Init /\ [][Next]_vars

\* ------------------------------------------------------------ observations

\* The step that takes the next message from the websocket.
TakesMessage == pc = "recv" /\ nmsgs' = nmsgs + 1

\* The session has been terminated: the iteration over the websocket ended.
Terminated == pc \in {"finally", "done"}

\* The left (inbound) and right (outbound) channel of a written stereo frame.
LeftChannel(stereo_audio) ==
    [i \in 1..Len(stereo_audio) |-> stereo_audio[i][1]]
RightChannel(stereo_audio) ==
    [i \in 1..Len(stereo_audio) |-> stereo_audio[i][2]]

\* A media message whose payload is malformed: a key is missing, the base64
\* text does not decode, or it decodes to no bytes.
Malformed(m) ==
    /\ m.json /\ m.event = "media"
    /\ \/ ~m.hasMedia
       \/ ~m.hasPayload
       \/ ~B64Decode(m.payload).ok
       \/ B64Decode(m.payload).bytes = <<>>

\* ------------------------------------------------------------------ claims

(***************************************************************************)
(* C1.  Before Stop or connection termination, every step that removes     *)
(* bytes from one track buffer removes the same number of bytes from the   *)
(* other track buffer; only the drain at Stop or termination consumes one  *)
(* buffer alone.                                                           *)
(***************************************************************************)
C1_ConsumesBothBuffersAlike ==
    [][(~seenStop /\ ~Terminated)
          => (taken'.inbound - taken.inbound
                = taken'.outbound - taken.outbound)]_vars

(***************************************************************************)
(* C2.  At every moment the bytes consumed so far from the inbound buffer  *)
(* and from the outbound buffer differ by at most one chunk size.          *)
(***************************************************************************)
C2_ConsumptionAligned ==
    LET \* the bytes of the largest frame the payloads decode to: the unit
        \* in which the handler consumes a buffer
        sizes == {FrameBytes(Ulaw2Lin(B64Decode(p).bytes)) : p \in Payloads}
        chunk_bytes == CHOOSE c \in sizes : \A t \in sizes : t <= c
    IN  /\ taken.inbound - taken.outbound <= chunk_bytes
        /\ taken.outbound - taken.inbound <= chunk_bytes

(***************************************************************************)
(* C3.  When the handling of a Stop event is complete both track buffers   *)
(* are empty, and every frame that was buffered when Stop arrived has been *)
(* written to the sink since, in the channel of its track.                 *)
(***************************************************************************)
C3_StopLeavesNothingBuffered ==
    [][(TakesMessage /\ message'.json /\ message'.event = "stop")
          => /\ pc' = "recv"
             /\ inbound_buffer' = <<>>
             /\ outbound_buffer' = <<>>
             /\ \A i \in DOMAIN inbound_buffer :
                   \E k \in (Len(written) + 1)..Len(written') :
                      LeftChannel(written'[k]) = inbound_buffer[i]
             /\ \A i \in DOMAIN outbound_buffer :
                   \E k \in (Len(written) + 1)..Len(written') :
                      RightChannel(written'[k]) = outbound_buffer[i]]_vars

\* A Stop event has just been handled on a connection that had written audio.
C3_Witness ==
    /\ pc = "recv" /\ message = ControlEvent("stop")
    /\ written # <<>> /\ taken.inbound > 0

(***************************************************************************)
(* C4.  The zero-fill drain runs at most once per session, and only once   *)
(* Stop has been received or the connection has terminated.                *)
(***************************************************************************)
C4_DrainsOnceAtStop ==
    /\ fills <= 1
    /\ fills > 0 => (seenStop \/ Terminated)

(***************************************************************************)
(* C5.  However the session ends, the audio sink that was opened for it    *)
(* has been stopped and closed, exactly once, when handle_call returns.    *)
(***************************************************************************)
C5_SinkReleasedExactlyOnce ==
    (pc = "done" /\ stream # "none") => (stream = "closed" /\ releases = 1)

(***************************************************************************)
(* C6.  As long as no Start event has been received no event changes a     *)
(* track buffer and nothing is written to the sink.                        *)
(***************************************************************************)
C6_NothingBeforeStart ==
    [][~seenStart
          => (/\ inbound_buffer' = inbound_buffer
              /\ outbound_buffer' = outbound_buffer
              /\ written' = written)]_vars

(***************************************************************************)
(* C7.  Once a Stop event has been received the session is closed for      *)
(* good: no later event is appended to a track buffer, paired, padded or   *)
(* written to the sink.                                                    *)
(***************************************************************************)
C7_NothingAfterStop ==
    [][seenStop
          => (/\ pc' \in {"recv", "finally", "done"}
              /\ UNCHANGED <<inbound_buffer, outbound_buffer, written,
                             taken>>)]_vars

(***************************************************************************)
(* C8.  After a write to the sink has failed the session is closed: no     *)
(* further message is taken from the connection, so no later media frame   *)
(* is buffered or written.                                                 *)
(***************************************************************************)
C8_WriteFailureEndsSession ==
    [][writeFailed => ~TakesMessage]_vars

(***************************************************************************)
(* C9.  A media message with a malformed payload (a missing key, bad       *)
(* base64, an empty payload) is dropped: it leaves both track buffers as   *)
(* they were, and the handler stays ready for the next message.            *)
(***************************************************************************)
C9_MalformedFrameDropped ==
    [][(TakesMessage /\ Malformed(message'))
          => (/\ pc' = "recv"
              /\ inbound_buffer' = inbound_buffer
              /\ outbound_buffer' = outbound_buffer)]_vars

(***************************************************************************)
(* C10.  A media message whose track label is neither inbound nor outbound *)
(* is dropped: the step that handles it leaves both track buffers and the  *)
(* sink's input unchanged and returns to waiting for the next message, so  *)
(* no later step writes on its account.                                    *)
(***************************************************************************)
C10_UnknownTrackDropped ==
    [][(TakesMessage /\ message'.json /\ message'.event = "media"
          /\ message'.track \notin {"inbound", "outbound"})
          => (/\ pc' = "recv"
              /\ inbound_buffer' = inbound_buffer
              /\ outbound_buffer' = outbound_buffer
              /\ written' = written)]_vars

\* A decodable frame with another track label has just been handled, on a
\* connection that wrote audio before it.
C10_Witness ==
    /\ pc = "recv" /\ message = Media("both_tracks", PayloadTwo)
    /\ written # <<>>

(***************************************************************************)
(* C11.  Before the Stop event every frame written to the sink carries     *)
(* exactly chunk_bytes from each track: a write happens only when both     *)
(* buffers give up a full chunk, and shorter frames come only with the     *)
(* drain at shutdown.                                                      *)
(***************************************************************************)
C11_OnlyFullChunksBeforeDrain ==
    [][ LET sizes == {FrameBytes(Ulaw2Lin(B64Decode(p).bytes)) :
                         p \in Payloads}
            chunk_bytes == CHOOSE c \in sizes : \A t \in sizes : t <= c
        IN  (~seenStop /\ ~Terminated /\ written' # written)
               => /\ taken'.inbound - taken.inbound = chunk_bytes
                  /\ taken'.outbound - taken.outbound = chunk_bytes ]_vars

(***************************************************************************)
(* C14.  Within a connection the messages are handled one at a time in     *)
(* the order they are taken: a message is taken only when the handler is   *)
(* back at the receive, and every buffer change and every write to the     *)
(* stream in between belongs to the message taken last.                    *)
(***************************************************************************)
C14_OneMessageAtATime ==
    [][ /\ nmsgs' # nmsgs => (pc = "recv" /\ nmsgs' = nmsgs + 1)
        /\ nmsgs' = nmsgs => message' = message
        /\ (written' # written \/ taken' # taken)
              => (nmsgs' = nmsgs /\ pc \in {"sync", "fill_in", "fill_out"})
        /\ pc' = "recv" /\ pc \in {"sync", "fill_in", "fill_out"}
              => (inbound_buffer' = <<>> /\ outbound_buffer' = <<>>) ]_vars

\* The second message is being handled after the first one's frame was
\* written.
C14_Witness ==
    /\ nmsgs = 2
    /\ pc = "fill_in"
    /\ Len(written) = 1

\* The bytes a buffer holds: those of all its frames.
RECURSIVE BufferedBytes(_)
BufferedBytes(buffer) ==
    IF buffer = <<>> THEN 0
    ELSE FrameBytes(Head(buffer)) + BufferedBytes(Tail(buffer))

(***************************************************************************)
(* C21.  Whenever the pairing loop is not under way, at least one of the   *)
(* two buffers holds fewer than chunk_bytes: once the loop has run after   *)
(* an append, a full chunk never waits on both tracks at once.             *)
(***************************************************************************)
C21_NoFullChunkOnBothTracks ==
    LET sizes == {FrameBytes(Ulaw2Lin(B64Decode(p).bytes)) : p \in Payloads}
        chunk_bytes == CHOOSE c \in sizes : \A t \in sizes : t <= c
    IN  pc # "sync"
        => \/ BufferedBytes(inbound_buffer) < chunk_bytes
           \/ BufferedBytes(outbound_buffer) < chunk_bytes

\* The loop has just run after the append of a full chunk to one track.
C21_Witness ==
    /\ pc = "fill"
    /\ message = Media("outbound", PayloadTwo)
    /\ BufferedBytes(outbound_buffer) = 4
    /\ inbound_buffer = <<>>

(***************************************************************************)
(* C23.  When frames of one track are written out while the other buffer   *)
(* is empty, every frame written carries the frame taken in the channel    *)
(* of its track and zeros of the same length in the other channel:         *)
(* inbound audio leaves the right channel silent, outbound audio the left. *)
(***************************************************************************)
C23_ZeroFillsTheEmptyTrack ==
    [][ /\ (pc = "fill_in" /\ written' # written)
              => LET stereo_audio == written'[Len(written')] IN
                 /\ outbound_buffer = <<>>
                 /\ LeftChannel(stereo_audio) = Head(inbound_buffer)
                 /\ RightChannel(stereo_audio)
                       = [i \in 1..Len(Head(inbound_buffer)) |-> 0]
        /\ (pc = "fill_out" /\ written' # written)
              => LET stereo_audio == written'[Len(written')] IN
                 /\ inbound_buffer = <<>>
                 /\ RightChannel(stereo_audio) = Head(outbound_buffer)
                 /\ LeftChannel(stereo_audio)
                       = [i \in 1..Len(Head(outbound_buffer)) |-> 0] ]_vars

\* An outbound frame of two samples has been written with a silent left
\* channel.
C23_Witness ==
    /\ message = Media("outbound", PayloadTwo)
    /\ written # <<>>
    /\ RightChannel(written[Len(written)]) = Decode(message).frame
    /\ LeftChannel(written[Len(written)]) = <<0, 0>>
    /\ outbound_buffer = <<>>

(***************************************************************************)
(* C24.  Each buffer is a queue: a frame is appended behind the frames     *)
(* already there, the frame taken is always the oldest and leaves the      *)
(* buffer, and a frame written goes behind the frames written before and   *)
(* carries the frame just taken in the channel of its track.  So the       *)
(* samples of a track reach the stream in the order its frames were        *)
(* received, none of them twice.                                           *)
(***************************************************************************)
C24_TrackOrderKept ==
    [][ LET Oldest(buffer) == buffer[1]
            Others(buffer) == SubSeq(buffer, 2, Len(buffer))
            Takes(before, after) == before # <<>> /\ after = Others(before)
        IN
        /\ (pc = "recv" /\ inbound_buffer' # inbound_buffer)
              => inbound_buffer'
                    = Append(inbound_buffer, Decode(message').frame)
        /\ (pc = "recv" /\ outbound_buffer' # outbound_buffer)
              => outbound_buffer'
                    = Append(outbound_buffer, Decode(message').frame)
        /\ (pc # "recv" /\ inbound_buffer' # inbound_buffer)
              => Takes(inbound_buffer, inbound_buffer')
        /\ (pc # "recv" /\ outbound_buffer' # outbound_buffer)
              => Takes(outbound_buffer, outbound_buffer')
        /\ written' # written
              => /\ SubSeq(written', 1, Len(written)) = written
                 /\ Len(written') = Len(written) + 1
                 /\ \/ /\ Takes(inbound_buffer, inbound_buffer')
                       /\ LeftChannel(written'[Len(written')])
                             = Oldest(inbound_buffer)
                    \/ /\ Takes(outbound_buffer, outbound_buffer')
                       /\ RightChannel(written'[Len(written')])
                             = Oldest(outbound_buffer) ]_vars

\* Two inbound frames, received one after the other, are in the stream in
\* that order.
C24_Witness ==
    /\ Len(written) = 2
    /\ LeftChannel(written[1]) = Decode(Media("inbound", PayloadOne)).frame
    /\ LeftChannel(written[2]) = Decode(Media("inbound", PayloadTwo)).frame
    /\ message = Media("inbound", PayloadTwo)

(***************************************************************************)
(* C25.  In handle_call both buffers are empty every time the handler is   *)
(* about to receive the next message, whatever the messages were and       *)
(* whichever writes to the stream failed.                                  *)
(***************************************************************************)
C25_NothingHeldAcrossMessages ==
    pc = "recv" => (inbound_buffer = <<>> /\ outbound_buffer = <<>>)

\* Back at the receive after audio of both tracks, with a failed write
\* among the writes.
C25_Witness ==
    /\ pc = "recv"
    /\ nmsgs >= 2
    /\ taken.inbound > 0
    /\ taken.outbound > 0
    /\ writeFailed
    /\ written # <<>>

\* ------------------------------------------------------------------ mixing

(***************************************************************************)
(* The mixing step as a function of two chunks.  The stereo policy is the  *)
(* expression of lines 78-89 of handle_call.  The repository has no        *)
(* summing policy; SumMix follows the description of its specification:    *)
(* every sample is multiplied by a scale below one and the two scaled      *)
(* chunks are added sample by sample with saturation.                      *)
(***************************************************************************)

\* The longest chunk drawn.
MaxChunkLen == 2

\* 16-bit signed samples (dtype=np.int16, line 61).
Int16Min == -32768
Int16Max == 32767

\* The samples the chunks are drawn from: both extremes and values around
\* zero.
SampleValues == {Int16Min, -1, 10, Int16Max}

ChunksOf(n) == [1..n -> SampleValues]

ExampleInbound == <<10, 20, 30, 40>>
ExampleOutbound == <<1, 2, 3, 4>>

Chunks ==
    UNION {ChunksOf(n) : n \in 0..MaxChunkLen}
       \cup {ExampleInbound, ExampleOutbound}

\* A scale is a fraction <<numerator, denominator>> below one.
Scales == {<<1, 2>>, <<3, 4>>}

\* scale * a, cut to an integer sample.
Scaled(a, scale) ==
    IF a >= 0 THEN (a * scale[1]) \div scale[2]
              ELSE -(((-a) * scale[1]) \div scale[2])

\* A variant that adds without saturation.
SaturatingAdd_Plain(x, y) == x + y

SaturatingAdd(x, y) ==
    IF x + y > Int16Max THEN Int16Max
    ELSE IF x + y < Int16Min THEN Int16Min
    ELSE x + y

\* The mono frame of the summing policy.
SumMixed(in_chunk, out_chunk, scale) ==
    [i \in 1..Min(Len(in_chunk), Len(out_chunk)) |->
        SaturatingAdd(Scaled(in_chunk[i], scale), Scaled(out_chunk[i], scale))]

\* The samples stream.write(stereo_audio) hands to the device, line 89: the
\* rows of the two-column array one after the other.
Interleaved(stereo_audio) ==
    [j \in 1..(2 * Len(stereo_audio)) |->
        stereo_audio[(j + 1) \div 2][2 - (j % 2)]]

Unmixed(in_chunk, out_chunk, scale) ==
    [name |-> "mix", in_chunk |-> in_chunk, out_chunk |-> out_chunk,
     scale |-> scale, policy |-> "none", frame |-> <<>>]

MixInit ==
    /\ Entered
    /\ \E in_chunk \in Chunks, out_chunk \in Chunks, scale \in Scales :
          act = Unmixed(in_chunk, out_chunk, scale)

\* Lines 78-89 applied to the two chunks.
StereoChannels ==
    /\ act.policy = "none"
    /\ act' = [act EXCEPT
                 !.policy = "StereoChannels",
                 !.frame = Interleaved(PairedAudio(act.in_chunk,
                                                   act.out_chunk))]
    /\ UNCHANGED connection

SumMix ==
    /\ act.policy = "none"
    /\ act' = [act EXCEPT
                 !.policy = "SumMix",
                 !.frame = SumMixed(act.in_chunk, act.out_chunk, act.scale)]
    /\ UNCHANGED connection

MixNext ==
    \/ StereoChannels
    \/ SumMix

MixSpec == MixInit /\ [][MixNext]_vars

(***************************************************************************)
(* C12.  The stereo policy applied to two chunks of k samples each gives   *)
(* one frame of 2k samples: the samples of the inbound chunk, unchanged,   *)
(* at the left positions and those of the outbound chunk at the right      *)
(* positions; <<10,20,30,40>> and <<1,2,3,4>> give                         *)
(* <<10,1,20,2,30,3,40,4>>.                                                *)
(***************************************************************************)
C12_StereoInterleaves ==
    (act.name = "mix" /\ act.policy = "StereoChannels"
        /\ Len(act.in_chunk) = Len(act.out_chunk))
    => /\ Len(act.frame) = 2 * Len(act.in_chunk)
       /\ \A i \in 1..Len(act.in_chunk) :
             /\ act.frame[2 * i - 1] = act.in_chunk[i]
             /\ act.frame[2 * i] = act.out_chunk[i]
       /\ (act.in_chunk = ExampleInbound /\ act.out_chunk = ExampleOutbound)
             => act.frame = <<10, 1, 20, 2, 30, 3, 40, 4>>

C12_Witness ==
    /\ act.name = "mix"
    /\ act.policy = "StereoChannels"
    /\ act.in_chunk = ExampleInbound
    /\ act.out_chunk = ExampleOutbound
    /\ Len(act.frame) = 8

(***************************************************************************)
(* C13.  Every sample the summing policy emits lies within the 16-bit      *)
(* signed range and has not wrapped around: it is never of the opposite    *)
(* sign to the sum of the two scaled samples.                              *)
(***************************************************************************)
C13_SumStaysInRange ==
    (act.name = "mix" /\ act.policy = "SumMix")
    => \A i \in 1..Len(act.frame) :
          LET sum == Scaled(act.in_chunk[i], act.scale)
                        + Scaled(act.out_chunk[i], act.scale)
          IN  /\ act.frame[i] >= Int16Min
              /\ act.frame[i] <= Int16Max
              /\ sum >= 0 => act.frame[i] >= 0
              /\ sum <= 0 => act.frame[i] <= 0

\* A sum beyond the range has been cut to the largest sample.
C13_Witness ==
    /\ act.name = "mix"
    /\ act.policy = "SumMix"
    /\ \E i \in 1..Len(act.frame) :
          /\ Scaled(act.in_chunk[i], act.scale)
                + Scaled(act.out_chunk[i], act.scale) > Int16Max
          /\ act.frame[i] = Int16Max

\* ---------------------------------------------------------------- sessions

(***************************************************************************)
(* Two connections served at once.  websockets.serve (line 130) starts one *)
(* handle_call per connection; each call makes its own stream (line 31)    *)
(* and its own two buffers (lines 40-41).  The body of the receive loop    *)
(* holds no await, so the handling of one message is one step and the      *)
(* steps of the two connections interleave in any order.                   *)
(***************************************************************************)

\* The messages delivered over both connections together.
MaxDeliveries == 3

SessionIds == {1, 2}

\* A variant in which every connection writes to the stream of the first.
StreamOf_Shared(s) == 1

\* The stream a connection writes to: the one it opened itself.
StreamOf(s) == s

\* What a connection may be sent, with the fate of the stream.write the
\* message leads to.
Deliveries ==
    {<<m, accepted>> \in
        {ControlEvent("start"), Media("inbound", PayloadOne),
         Media("outbound", PayloadTwo), Media("inbound", PayloadBad)}
           \X BOOLEAN :
        AppendsTo(m) = "none" => accepted}

\* The pairing loop, lines 76-89, on the two buffers and the frames the
\* stream holds so far.
RECURSIVE PairingLoop(_, _, _, _)
PairingLoop(inbound, outbound, frames, accepted) ==
    IF inbound # <<>> /\ outbound # <<>>
    THEN IF accepted
         THEN PairingLoop(Rest(inbound), Rest(outbound),
                          Append(frames,
                                 PairedAudio(Head(inbound), Head(outbound))),
                          accepted)
         ELSE [inbound_buffer |-> Rest(inbound),
               outbound_buffer |-> Rest(outbound),
               written |-> frames, raised |-> TRUE]
    ELSE [inbound_buffer |-> inbound, outbound_buffer |-> outbound,
          written |-> frames, raised |-> FALSE]

\* The body of the receive loop, lines 45-112, for one message: the two
\* buffers and the frames of the stream afterwards.
Handled(inbound, outbound, frames, m, accepted) ==
    LET in1 == IF AppendsTo(m) = "inbound"
               THEN Append(inbound, Decode(m).frame) ELSE inbound
        out1 == IF AppendsTo(m) = "outbound"
                THEN Append(outbound, Decode(m).frame) ELSE outbound
        paired == PairingLoop(in1, out1, frames, accepted)
        in2 == paired.inbound_buffer
        out2 == paired.outbound_buffer
        left == [inbound_buffer |-> in2, outbound_buffer |-> out2,
                 written |-> paired.written]
    IN  IF AppendsTo(m) = "none"
        THEN [inbound_buffer |-> inbound, outbound_buffer |-> outbound,
              written |-> frames]
        ELSE IF paired.raised THEN left
        ELSE IF in2 # <<>>
        THEN IF accepted
             THEN [left EXCEPT
                     !.inbound_buffer = <<>>,
                     !.written = paired.written \o
                        [i \in 1..Len(in2) |-> InboundPadded(in2[i])]]
             ELSE [left EXCEPT !.inbound_buffer = Rest(in2)]
        ELSE IF out2 # <<>>
        THEN IF accepted
             THEN [left EXCEPT
                     !.outbound_buffer = <<>>,
                     !.written = paired.written \o
                        [i \in 1..Len(out2) |-> OutboundPadded(out2[i])]]
             ELSE [left EXCEPT !.outbound_buffer = Rest(out2)]
        ELSE left

\* A connection that received the deliveries of log on its own.
RECURSIVE Alone(_)
Alone(log) ==
    IF log = <<>>
    THEN [inbound_buffer |-> <<>>, outbound_buffer |-> <<>>, written |-> <<>>]
    ELSE LET before == Alone(SubSeq(log, 1, Len(log) - 1))
             last == log[Len(log)]
         IN  Handled(before.inbound_buffer, before.outbound_buffer,
                     before.written, last[1], last[2])

\* Both connections are open, their streams started, nothing received.
SessionsInit ==
    /\ Entered
    /\ act = [name |-> "sessions",
              buffers |-> [s \in SessionIds |->
                             [inbound_buffer |-> <<>>,
                              outbound_buffer |-> <<>>]],
              streams |-> [s \in SessionIds |-> <<>>],
              log |-> [s \in SessionIds |-> <<>>],
              order |-> <<>>]

\* Connection s handles its next message.
Deliver(s) ==
    /\ Len(act.order) < MaxDeliveries
    /\ \E d \in Deliveries :
          LET after == Handled(act.buffers[s].inbound_buffer,
                               act.buffers[s].outbound_buffer,
                               act.streams[StreamOf(s)], d[1], d[2])
          IN  act' = [act EXCEPT
                        !.buffers[s] =
                            [inbound_buffer |-> after.inbound_buffer,
                             outbound_buffer |-> after.outbound_buffer],
                        !.streams[StreamOf(s)] = after.written,
                        !.log[s] = Append(@, d),
                        !.order = Append(@, s)]
    /\ UNCHANGED connection

SessionsNext == \E s \in SessionIds : Deliver(s)

SessionsSpec == SessionsInit /\ [][SessionsNext]_vars

(***************************************************************************)
(* C15.  However the messages of two connections interleave, the buffers   *)
(* of each connection and the frames its stream has been given are those   *)
(* of the same connection receiving its own messages alone.                *)
(***************************************************************************)
C15_SessionsIndependent ==
    act.name = "sessions"
    => \A s \in SessionIds :
          LET alone == Alone(act.log[s]) IN
          /\ act.buffers[s].inbound_buffer = alone.inbound_buffer
          /\ act.buffers[s].outbound_buffer = alone.outbound_buffer
          /\ act.streams[StreamOf(s)] = alone.written

\* The second connection wrote a frame between two frames of the first.
C15_Witness ==
    /\ act.name = "sessions"
    /\ act.order = <<1, 2, 1>>
    /\ Len(act.streams[1]) = 2
    /\ Len(act.streams[2]) = 1

\* ------------------------------------------------------- unequal buffers

(***************************************************************************)
(* Lines 65-104 as a function of the buffers a media message finds: the    *)
(* frame is appended, frames are paired while both lists hold one, and     *)
(* what is left of one list is written with silence.                       *)
(***************************************************************************)

\* The most frames one buffer is drawn with.
MaxBuffered == 2

\* The frames the buffers are drawn from: one sample, three samples.
BufferedFrames == {<<10>>, <<10, 20, 30>>}

BuffersHeld == UNION {[1..n -> BufferedFrames] : n \in 0..MaxBuffered}

\* The samples of the frames of a list, one frame after the other.
RECURSIVE Flat(_)
Flat(frames) ==
    IF frames = <<>> THEN <<>> ELSE Head(frames) \o Flat(Tail(frames))

UnequalInit ==
    /\ Entered
    /\ \E inbound \in BuffersHeld, outbound \in BuffersHeld :
          act = [name |-> "unequal", handled |-> FALSE,
                 inbound_buffer |-> inbound, outbound_buffer |-> outbound,
                 appended |-> [inbound |-> <<>>, outbound |-> <<>>],
                 accepted |-> FALSE, written |-> <<>>]

\* One message is handled on the buffers drawn.
HandleOnBuffers ==
    /\ act.name = "unequal"
    /\ ~act.handled
    /\ \E d \in Deliveries :
          LET after == Handled(act.inbound_buffer, act.outbound_buffer,
                               <<>>, d[1], d[2])
          IN  act' = [act EXCEPT
                        !.handled = TRUE,
                        !.appended =
                            [inbound |->
                                IF AppendsTo(d[1]) = "inbound"
                                THEN Append(act.inbound_buffer,
                                            Decode(d[1]).frame)
                                ELSE act.inbound_buffer,
                             outbound |->
                                IF AppendsTo(d[1]) = "outbound"
                                THEN Append(act.outbound_buffer,
                                            Decode(d[1]).frame)
                                ELSE act.outbound_buffer],
                        !.accepted = (d[2] /\ AppendsTo(d[1]) # "none"),
                        !.inbound_buffer = after.inbound_buffer,
                        !.outbound_buffer = after.outbound_buffer,
                        !.written = after.written]
    /\ UNCHANGED connection

UnequalSpec == UnequalInit /\ [][HandleOnBuffers]_vars

ChicagoOffsets == {-6, -5}

\* datetime.datetime.now(chicago_tz).hour at an instant given in UTC.
ChicagoHour(utc_hour, utcoffset) == (utc_hour + utcoffset + 24) % 24

\* A variant that counts noon as morning.
TimeOfDay_NoonIsMorning(hour) ==
    IF 6 <= hour /\ hour <= 12 THEN "morning"
    ELSE IF 12 <= hour /\ hour < 18 THEN "afternoon"
    ELSE IF 18 <= hour /\ hour < 22 THEN "evening"
    ELSE "night"

\* Lines 70-77.
TimeOfDay(hour) ==
    IF 6 <= hour /\ hour < 12 THEN "morning"
    ELSE IF 12 <= hour /\ hour < 18 THEN "afternoon"
    ELSE IF 18 <= hour /\ hour < 22 THEN "evening"
    ELSE "night"

\* The action is about to run at some instant.
TimeOfDayInit ==
    /\ Entered
    /\ \E utc_hour \in 0..23, minute \in {0, 30, 59},
          utcoffset \in ChicagoOffsets :
          act = [name |-> "time_of_day", utc_hour |-> utc_hour,
                 minute |-> minute, utcoffset |-> utcoffset,
                 returned |-> FALSE, hour |-> -1, success |-> FALSE,
                 time_of_day |-> ""]

\* run, lines 61-85.
DetermineTimeOfDay ==
    /\ act.name = "time_of_day"
    /\ ~act.returned
    /\ LET hour == ChicagoHour(act.utc_hour, act.utcoffset) IN
       act' = [act EXCEPT !.returned = TRUE, !.hour = hour,
                          !.success = TRUE, !.time_of_day = TimeOfDay(hour)]
    /\ UNCHANGED connection

TimeOfDaySpec == TimeOfDayInit /\ [][DetermineTimeOfDay]_vars

(***************************************************************************)
(* C16.  DetermineTimeOfDay.run answers every hour 0..23 of the Chicago    *)
(* time with the documented label: 6-11 morning, 12-17 afternoon, 18-21    *)
(* evening, 22-23 and 0-5 night; the response always has success=True.     *)
(***************************************************************************)
C16_HourDecidesLabel ==
    (act.name = "time_of_day" /\ act.returned)
    => /\ act.success
       /\ act.hour \in 0..23
       /\ act.hour \in 6..11 <=> act.time_of_day = "morning"
       /\ act.hour \in 12..17 <=> act.time_of_day = "afternoon"
       /\ act.hour \in 18..21 <=> act.time_of_day = "evening"
       /\ act.hour \in (22..23) \cup (0..5) <=> act.time_of_day = "night"

\* Noon in Chicago in summer: 17:00 UTC.
C16_Witness ==
    /\ act.name = "time_of_day"
    /\ act.returned
    /\ act.hour = 12
    /\ act.utc_hour = 17
    /\ act.time_of_day = "afternoon"

\* ------------------------------------------------------ contact center save

(***************************************************************************)
(* vocode/streaming/action/contact_center_save.py, add_to_contact_center:  *)
(* search the contact center for the phone, then create a contact or       *)
(* update the one found.  The contact center is the set of records it      *)
(* holds; a record is created when the server answers a create with 200.   *)
(***************************************************************************)

\* How many times add_to_contact_center is called.
MaxCalls == 2

Phones == {"+15551234567", "5551234567", ""}

\* normalize_phone_number, lines 166-196: the national number of a valid
\* number in international form, None otherwise.
NormalizePhoneNumber(phone_number) ==
    IF phone_number = "+15551234567" THEN "5551234567" ELSE "None"

\* The answers of the server to a request: a status, or the request raises.
Answers == {"200", "500", "raises"}

\* The contact center before the first call: empty, or holding one contact
\* of the phone, complete or without a token.
StoredContacts ==
    {{},
     {[_id |-> "id0", token |-> "token0", phone |-> "5551234567"]},
     {[_id |-> "id0", token |-> "", phone |-> "5551234567"]}}

\* The contacts contact.search answers with for a phone.
Found(contacts, phone) ==
    {c \in contacts : c.phone = NormalizePhoneNumber(phone)}

\* secrets.token_urlsafe, lines 244-245: a value never issued before.
Fresh(kind, n) ==
    kind \o (CASE n = 0 -> "1" [] n = 1 -> "2" [] n = 2 -> "3"
               [] OTHER -> "n")

SaveInit ==
    /\ Entered
    /\ \E contacts \in StoredContacts :
          act = [name |-> "contact_center_save", pc |-> "call", calls |-> 0,
                 contacts |-> contacts, phone |-> "", cnt |-> {},
                 generated |-> 0, request |-> "none", sent |-> {},
                 result |-> "none"]

\* Lines 217-239: the search; anything but a 200 leaves cnt empty.
SearchContact ==
    /\ act.name = "contact_center_save"
    /\ act.pc = "call"
    /\ act.calls < MaxCalls
    /\ \E phone \in Phones, answer \in Answers :
          act' = [act EXCEPT
                    !.pc = "searched",
                    !.calls = @ + 1,
                    !.phone = phone,
                    !.cnt = IF answer = "200"
                            THEN Found(act.contacts, phone) ELSE {},
                    !.request = "search",
                    !.sent = {},
                    !.result = "none"]
    /\ UNCHANGED connection

\* Lines 241-277: no contact was found, so one is created under a new _id
\* and token.
CreateContact ==
    /\ act.name = "contact_center_save"
    /\ act.pc = "searched"
    /\ act.cnt = {}
    /\ LET data == [_id |-> Fresh("id", act.generated),
                    token |-> Fresh("token", act.generated),
                    phone |-> NormalizePhoneNumber(act.phone)]
       IN  IF data.phone = "None"
           THEN act' = [act EXCEPT !.pc = "call", !.generated = @ + 1,
                                   !.request = "none", !.result = "False"]
           ELSE \E answer \in Answers :
                  act' = [act EXCEPT
                            !.pc = "call",
                            !.generated = @ + 1,
                            !.request = "create",
                            !.sent = {data},
                            !.contacts = IF answer = "200"
                                         THEN @ \cup {data} ELSE @,
                            !.result = IF answer = "200"
                                       THEN "True" ELSE "False"]
    /\ UNCHANGED connection

\* Lines 279-322: a contact was found and is updated under its own _id and
\* token.
UpdateContact ==
    /\ act.name = "contact_center_save"
    /\ act.pc = "searched"
    /\ act.cnt # {}
    /\ \E contact \in act.cnt :
          IF contact._id = "" \/ contact.token = ""
             \/ NormalizePhoneNumber(act.phone) = "None"
          THEN act' = [act EXCEPT !.pc = "call", !.request = "none",
                                  !.result = "False"]
          ELSE \E answer \in Answers :
                 act' = [act EXCEPT
                           !.pc = "call",
                           !.request = "update",
                           !.sent = {[_id |-> contact._id,
                                      token |-> contact.token,
                                      phone |->
                                         NormalizePhoneNumber(act.phone)]},
                           !.result = IF answer = "200"
                                      THEN "True" ELSE "False"]
    /\ UNCHANGED connection

SaveNext ==
    \/ SearchContact
    \/ CreateContact
    \/ UpdateContact

SaveSpec == SaveInit /\ [][SaveNext]_vars

(***************************************************************************)
(* C17.  add_to_contact_center sends a create only when the contact center *)
(* holds no contact of the phone, sends an update under the _id and token  *)
(* of the existing contact when it holds one, and never leaves the contact *)
(* center with two records of one phone.                                   *)
(***************************************************************************)
C17_NoSecondRecord ==
    act.name = "contact_center_save"
    => /\ \A c1 \in act.contacts, c2 \in act.contacts :
             c1.phone = c2.phone => c1 = c2
       /\ act.request = "update"
             => \E c \in act.contacts :
                   act.sent = {[_id |-> c._id, token |-> c.token,
                                phone |-> c.phone]}
       /\ act.request = "create"
             => \A c \in act.contacts :
                   c.phone = NormalizePhoneNumber(act.phone) => c \in act.sent

\* ------------------------------------------------------------------ waiting

(***************************************************************************)
(* vocode/streaming/action/wait_with_time.py, WaitTime.run.  The duration  *)
(* and its upper limit come from the parameters of the call, or from the   *)
(* configuration when the configuration sets both (parameters_type, lines  *)
(* 76-81).  An optional value is <<>> when None and <<v>> when v.          *)
(***************************************************************************)

\* The longest duration drawn, in seconds.
MaxSeconds == 3

Seconds == 0..MaxSeconds

Optional(values) == {<<>>} \cup {<<v>> : v \in values}

\* parameters_type, lines 76-81.
ParametersType(action_config) ==
    IF action_config.duration_seconds # <<>>
          /\ action_config.upper_limit # <<>>
    THEN "WaitTimeEmptyParameters"
    ELSE "WaitTimeRequiredParameters"

\* The calls run can receive: parameters of the type the configuration
\* asks for.
WaitInputs ==
    {in \in [action_config : [duration_seconds : Optional(Seconds),
                              upper_limit : Optional(Seconds)],
             params : [duration_seconds : Optional(Seconds),
                       upper_limit : Optional(Seconds)]] :
        IF ParametersType(in.action_config) = "WaitTimeEmptyParameters"
        THEN in.params.duration_seconds = <<>> /\ in.params.upper_limit = <<>>
        ELSE in.params.duration_seconds # <<>> /\ in.params.upper_limit # <<>>}

\* get_duration_seconds, lines 25-32.
GetDurationSeconds(in) ==
    IF in.params.duration_seconds # <<>>
    THEN in.params.duration_seconds[1]
    ELSE in.action_config.duration_seconds[1]

\* get_upper_limit, lines 34-41.
GetUpperLimit(in) ==
    IF in.params.upper_limit # <<>>
    THEN in.params.upper_limit[1]
    ELSE in.action_config.upper_limit[1]

\* A variant that ignores the upper limit.
Duration_Unlimited(duration_seconds, upper_limit) == duration_seconds

\* Line 98.
Duration(duration_seconds, upper_limit) == Min(duration_seconds, upper_limit)

\* The seconds asyncio.sleep(delay) lets pass: none for a delay that is
\* not positive.
Slept(delay) == IF delay <= 0 THEN 0 ELSE delay

WaitInit ==
    /\ Entered
    /\ \E in \in WaitInputs :
          act = [name |-> "wait_time", pc |-> "run", input |-> in,
                 duration |-> 0, slept |-> 0, success |-> FALSE]

\* Lines 95-99: the duration is worked out and the sleep begins.
StartWait ==
    /\ act.name = "wait_time"
    /\ act.pc = "run"
    /\ act' = [act EXCEPT
                 !.pc = "sleeping",
                 !.duration = Duration(GetDurationSeconds(act.input),
                                       GetUpperLimit(act.input))]
    /\ UNCHANGED connection

\* Lines 99-103: the sleep is over and the response is returned.
EndWait ==
    /\ act.name = "wait_time"
    /\ act.pc = "sleeping"
    /\ act' = [act EXCEPT !.pc = "returned", !.slept = Slept(act.duration),
                          !.success = TRUE]
    /\ UNCHANGED connection

WaitNext ==
    \/ StartWait
    \/ EndWait

WaitSpec == WaitInit /\ [][WaitNext]_vars

GatedActions == {"TwilioWarmTransferCall", "SendEmail"}

\* A variant that goes on whatever the transcript says.
AfterCheck_GoesOn(interrupted) == "acting"

\* Where run goes after was_last_message_interrupted(): lines 179-184 of
\* transfer_call_warm.py, lines 172-180 of twilio_sendgrid_send_email.py.
AfterCheck(interrupted) == IF interrupted THEN "returned" ELSE "acting"

GatedInit ==
    /\ Entered
    /\ \E action \in GatedActions, tracker \in BOOLEAN,
          interrupted \in BOOLEAN, environment \in BOOLEAN :
          act = [name |-> "gated", action |-> action, pc |-> "run",
                 user_message_tracker |-> tracker,
                 environment |-> environment,
                 interrupted |-> interrupted, waited |-> FALSE,
                 checked |-> FALSE, interrupted_at_check |-> FALSE,
                 requests |-> <<>>, answers |-> <<>>,
                 requested_before_check |-> FALSE, success |-> "none"]

Running == act.name = "gated" /\ act.pc \notin {"returned", "raised"}

\* The user talks over the last bot message.
Interrupt ==
    /\ Running
    /\ ~act.interrupted
    /\ act' = [act EXCEPT !.interrupted = TRUE]
    /\ UNCHANGED connection

\* run is entered and, with a tracker, starts to wait on it.
EnterRun ==
    /\ Running
    /\ act.pc = "run"
    /\ act' = [act EXCEPT !.pc = IF act.user_message_tracker
                                 THEN "waiting" ELSE "check"]
    /\ UNCHANGED connection

\* user_message_tracker.wait() returns.
TrackerReleases ==
    /\ Running
    /\ act.pc = "waiting"
    /\ act' = [act EXCEPT !.pc = "check", !.waited = TRUE]
    /\ UNCHANGED connection

\* was_last_message_interrupted(): an interrupted run returns
\* success=False.
CheckInterrupted ==
    /\ Running
    /\ act.pc = "check"
    /\ act' = [act EXCEPT
                 !.checked = TRUE,
                 !.interrupted_at_check = act.interrupted,
                 !.requested_before_check = (act.requests # <<>>),
                 !.pc = AfterCheck(act.interrupted),
                 !.success = IF AfterCheck(act.interrupted) = "returned"
                             THEN "False" ELSE "none"]
    /\ UNCHANGED connection

\* A variant that goes on whatever the status of the update.
AfterUpdate_GoesOn(status) == "updated"

\* transfer_call, lines 117-121: any status but 200 and 201 raises.
AfterUpdate(status) ==
    IF status \in {"200", "201"} THEN "updated" ELSE "raised"

\* transfer_call, lines 110-121: the call is moved into the conference.
UpdateCall ==
    /\ Running
    /\ act.action = "TwilioWarmTransferCall"
    /\ act.pc = "acting"
    /\ \E status \in {"200", "201", "500"} :
          act' = [act EXCEPT
                    !.requests = Append(@, "POST Calls/sid"),
                    !.answers = Append(@, status),
                    !.pc = AfterUpdate(status)]
    /\ UNCHANGED connection

\* transfer_call, lines 123-138: the conference is looked up.
FetchConference ==
    /\ Running
    /\ act.pc = "updated"
    /\ \E answer \in {"200 found", "200 none", "500"} :
          act' = [act EXCEPT
                    !.requests = Append(@, "GET Conferences"),
                    !.answers = Append(@, answer),
                    !.pc = IF answer = "200 found"
                           THEN "conference" ELSE "raised"]
    /\ UNCHANGED connection

\* transfer_call, lines 140-162, and run, lines 186-191: the manager is
\* dialed and run returns success=True.
DialManager ==
    /\ Running
    /\ act.pc = "conference"
    /\ \E status \in {"200", "201", "500"} :
          act' = [act EXCEPT
                    !.requests = Append(@, "POST Calls"),
                    !.answers = Append(@, status),
                    !.pc = IF status = "500" THEN "raised" ELSE "returned",
                    !.success = IF status = "500" THEN "none" ELSE "True"]
    /\ UNCHANGED connection

\* send_email, lines 122-161, and run, lines 182-190: without the
\* environment variables nothing is sent; otherwise the answer of
\* SendGrid decides success.
SendGridSend ==
    /\ Running
    /\ act.action = "SendEmail"
    /\ act.pc = "acting"
    /\ IF ~act.environment
       THEN act' = [act EXCEPT !.pc = "returned", !.success = "False"]
       ELSE \E answer \in {"202", "400", "raises"} :
              act' = [act EXCEPT
                        !.requests = Append(@, "POST mail/send"),
                        !.answers = Append(@, answer),
                        !.pc = "returned",
                        !.success = IF answer = "202"
                                    THEN "True" ELSE "False"]
    /\ UNCHANGED connection

GatedNext ==
    \/ Interrupt
    \/ EnterRun
    \/ TrackerReleases
    \/ CheckInterrupted
    \/ UpdateCall
    \/ FetchConference
    \/ DialManager
    \/ SendGridSend

GatedSpec == GatedInit /\ [][GatedNext]_vars

(***************************************************************************)
(* C19.  The warm transfer and the email are requested only after the wait *)
(* on the user-message tracker, when there is one, has returned, and only  *)
(* if the last bot message was then found not interrupted; if it was       *)
(* found interrupted no request is made to Twilio or SendGrid and the      *)
(* response is success=False.                                              *)
(***************************************************************************)
C19_ActsOnlyUninterrupted ==
    act.name = "gated"
    => /\ act.requests # <<>>
             => /\ act.checked
                /\ ~act.interrupted_at_check
                /\ ~act.requested_before_check
                /\ act.user_message_tracker => act.waited
       /\ act.checked => (act.user_message_tracker => act.waited)
       /\ (act.checked /\ act.interrupted_at_check)
             => (act.requests = <<>> /\ act.pc = "returned"
                    /\ act.success = "False")

\* The bot was interrupted while run waited on the tracker, and run gave
\* up without a request.
C19_Witness ==
    /\ act.name = "gated"
    /\ act.user_message_tracker
    /\ act.waited
    /\ act.interrupted_at_check
    /\ act.requests = <<>>
    /\ act.success = "False"

(***************************************************************************)
(* C27.  transfer_call sends its Twilio requests in the order update the   *)
(* call, look up the conference, dial the manager.  The manager is dialed  *)
(* only after an update answered 200 or 201 and a conference that was      *)
(* found; a failed step raises and is the last request sent; run returns   *)
(* success=True only after three successful requests.                      *)
(***************************************************************************)
C27_TransferStepsInOrder ==
    (act.name = "gated" /\ act.action = "TwilioWarmTransferCall")
    => LET order == <<"POST Calls/sid", "GET Conferences", "POST Calls">>
           n == Len(act.requests)
           Succeeded(i) ==
               IF i = 2 THEN act.answers[i] = "200 found"
                        ELSE act.answers[i] \in {"200", "201"}
       IN  /\ n <= 3
           /\ Len(act.answers) = n
           /\ act.requests = SubSeq(order, 1, n)
           /\ \A i \in 1..n :
                 ~Succeeded(i) => (i = n /\ act.pc = "raised")
           /\ act.pc = "raised" => (n > 0 /\ ~Succeeded(n))
           /\ act.success = "True"
                 => (n = 3 /\ \A i \in 1..3 : Succeeded(i))

\* The update succeeded, no conference was found, and the manager was
\* not dialed.
C27_Witness ==
    /\ act.name = "gated"
    /\ act.action = "TwilioWarmTransferCall"
    /\ act.pc = "raised"
    /\ act.requests = <<"POST Calls/sid", "GET Conferences">>
    /\ act.answers = <<"201", "200 none">>

\* ----------------------------------------------------- contact center query

(***************************************************************************)
(* vocode/streaming/action/contact_center_query.py, query_contact_center,  *)
(* called by GetPhoneAndQueryContactCenterAction.run (line 138) with a     *)
(* phone number and neither name nor email addresses.  A phone number is   *)
(* the sequence of its characters.                                         *)
(***************************************************************************)

\* The caller's number as the call details give it.
CallerPhones == {<<"+", "1", "5", "5">>, <<"1", "5", "5">>, <<"5", "5">>,
                 <<"+", "1", "7", "7">>}

\* Lines 170-176.
NormalizedPhone(phone) ==
    IF Head(phone) = "+" THEN phone
    ELSE IF Head(phone) = "1" THEN <<"+">> \o phone
    ELSE <<"+", "1">> \o phone

\* The contact center before the first query: empty, or holding the
\* contact of one caller.
KnownContacts ==
    {{}, {[_id |-> "id0", name |-> "Ada", phone |-> <<"+", "1", "5", "5">>]}}

QueryInit ==
    /\ Entered
    /\ \E contacts \in KnownContacts :
          act = [name |-> "contact_center_query", pc |-> "call",
                 calls |-> 0, before |-> contacts, contacts |-> contacts,
                 phone |-> <<>>, contact |-> {}, requests |-> <<>>,
                 contact_info |-> "none"]

\* Lines 170-201: the search.  Any status but 200 counts as "no contact";
\* a request that raises ends the function at line 303.
QuerySearch ==
    /\ act.name = "contact_center_query"
    /\ act.pc = "call"
    /\ act.calls < MaxCalls
    /\ \E phone \in CallerPhones, answer \in Answers :
          LET found == {c \in act.contacts :
                           c.phone = NormalizedPhone(phone)}
          IN  act' = [act EXCEPT
                        !.calls = @ + 1,
                        !.phone = NormalizedPhone(phone),
                        !.requests = Append(@, <<"GET", "contact.search">>),
                        !.contact = IF answer = "200" THEN found ELSE {},
                        !.contact_info = IF answer = "raises"
                                         THEN "EMPTY" ELSE "none",
                        !.pc = IF answer = "raises" THEN "call"
                               ELSE "searched"]
    /\ UNCHANGED connection

\* Lines 203-241: no contact came back, so one is created with the phone.
QueryCreate ==
    /\ act.name = "contact_center_query"
    /\ act.pc = "searched"
    /\ act.contact = {}
    /\ \E answer \in Answers :
          act' = [act EXCEPT
                    !.requests = Append(@, <<"POST", "contact">>),
                    !.contacts =
                        IF answer = "200"
                        THEN @ \cup {[_id |-> Fresh("id", Cardinality(@)),
                                      name |-> "EMPTY",
                                      phone |-> act.phone]}
                        ELSE @,
                    !.contact_info = "EMPTY",
                    !.pc = "call"]
    /\ UNCHANGED connection

\* Lines 242-301: a contact came back; with no name and no email address
\* there is nothing to update, and the contact is read.
QueryGet ==
    /\ act.name = "contact_center_query"
    /\ act.pc = "searched"
    /\ act.contact # {}
    /\ \E contact \in act.contact, answer \in Answers :
          act' = [act EXCEPT
                    !.requests = Append(@, <<"GET", "contact">>),
                    !.contact_info = IF answer = "200"
                                     THEN contact.name ELSE "EMPTY",
                    !.pc = "call"]
    /\ UNCHANGED connection

QueryNext ==
    \/ QuerySearch
    \/ QueryCreate
    \/ QueryGet

QuerySpec == QueryInit /\ [][QueryNext]_vars

(***************************************************************************)
(* C20.  query_contact_center called with only a phone number is a         *)
(* read-only query: every request it sends is a GET, and the records of    *)
(* the contact center stay as they were.                                   *)
(***************************************************************************)
C20_QueryIsReadOnly ==
    act.name = "contact_center_query"
    => /\ \A i \in 1..Len(act.requests) : act.requests[i][1] = "GET"
       /\ act.contacts = act.before

\* ---------------------------------------------------------- external action

(***************************************************************************)
(* vocode/streaming/action/execute_external_action.py,                     *)
(* ExecuteExternalAction.run: wait on the user-message tracker when the    *)
(* action responds and a tracker is present, mute the agent, read the      *)
(* Twilio call sid, send the external request, unmute the agent and build  *)
(* the output from the response.                                           *)
(***************************************************************************)

\* What send_external_action_request gives back: a response, None, or an
\* exception.
ExternalOutcomes ==
    [kind : {"response"}, success : BOOLEAN, agent_message : BOOLEAN,
     result : BOOLEAN]
       \cup {[kind |-> "None"], [kind |-> "raises"]}

ExternalInit ==
    /\ Entered
    /\ \E speak_on_send \in BOOLEAN, speak_on_receive \in BOOLEAN,
          tracker \in BOOLEAN :
          act = [name |-> "external", pc |-> "run",
                 should_respond |-> speak_on_send,
                 quiet |-> ~speak_on_receive,
                 user_message_tracker |-> tracker,
                 muted |-> FALSE, muted_at_request |-> FALSE,
                 requested |-> FALSE, outcome |-> [kind |-> "none"],
                 success |-> "none"]

\* Lines 103-104: run is entered and waits on the tracker when it has to.
ExternalEnter ==
    /\ act.name = "external"
    /\ act.pc = "run"
    /\ act' = [act EXCEPT
                 !.pc = IF act.should_respond /\ act.user_message_tracker
                        THEN "waiting" ELSE "mute"]
    /\ UNCHANGED connection

\* user_message_tracker.wait() returns.
ExternalTrackerReleases ==
    /\ act.name = "external"
    /\ act.pc = "waiting"
    /\ act' = [act EXCEPT !.pc = "mute"]
    /\ UNCHANGED connection

\* Line 106.
MuteAgent ==
    /\ act.name = "external"
    /\ act.pc = "mute"
    /\ act' = [act EXCEPT !.muted = TRUE, !.pc = "sid"]
    /\ UNCHANGED connection

\* Lines 109-111: the inherited get_twilio_sid gives the sid or raises.
GetTwilioSid ==
    /\ act.name = "external"
    /\ act.pc = "sid"
    /\ \E raises \in BOOLEAN :
          act' = [act EXCEPT !.pc = IF raises THEN "raised" ELSE "request"]
    /\ UNCHANGED connection

\* Lines 114-128: the request is sent; when it comes back the agent is
\* unmuted and the output is built, which raises on response.success when
\* there is no response.
SendExternalRequest ==
    /\ act.name = "external"
    /\ act.pc = "request"
    /\ \E outcome \in ExternalOutcomes :
          act' = [act EXCEPT
                    !.requested = TRUE,
                    !.muted_at_request = act.muted,
                    !.outcome = outcome,
                    !.muted = IF outcome.kind = "raises" THEN @ ELSE FALSE,
                    !.pc = IF outcome.kind = "response"
                           THEN "returned" ELSE "raised",
                    !.success = IF outcome.kind = "response"
                                THEN IF outcome.success
                                     THEN "True" ELSE "False"
                                ELSE "none"]
    /\ UNCHANGED connection

ExternalNext ==
    \/ ExternalEnter
    \/ ExternalTrackerReleases
    \/ MuteAgent
    \/ GetTwilioSid
    \/ SendExternalRequest

ExternalSpec == ExternalInit /\ [][ExternalNext]_vars

(***************************************************************************)
(* C26.  ExecuteExternalAction.run sends the external request with the     *)
(* agent muted, and however run ends, with an output or with an exception  *)
(* of the request, the agent is unmuted again.                             *)
(***************************************************************************)
C26_UnmutedOnEveryExit ==
    act.name = "external"
    => /\ act.requested => act.muted_at_request
       /\ act.pc \in {"returned", "raised"} => ~act.muted

\* ------------------------------------------------------ listen-only transfer

(***************************************************************************)
(* vocode/streaming/action/transfer_call_warm_onlylisten.py,               *)
(* TwilioListenOnlyWarmTransferCall: run waits on the user-message tracker *)
(* when there is one and then asks whether the last bot message was        *)
(* interrupted (lines 266-278); start_stream asks Twilio to stream the     *)
(* call and then calls the coach (lines 174-248); run turns an exception   *)
(* of start_stream into a response (lines 280-291).                        *)
(***************************************************************************)

\* A variant that lets the exception leave run.
OnException_Propagates(text) ==
    [pc |-> "raised", success |-> "none", message |-> ""]

\* Lines 286-291.
OnException(text) ==
    [pc |-> "returned", success |-> "False", message |-> text]

\* get_coach_phone_number, lines 59-83: the number of the parameters when
\* they carry one, the configured number otherwise.
GetCoachPhoneNumber(action_config, params) ==
    IF params # <<>> THEN params[1] ELSE action_config[1]

\* parameters_type, lines 154-157: a configured number leaves the
\* parameters empty, otherwise the parameters carry the number.
ListenInit ==
    /\ Entered
    /\ \E tracker \in BOOLEAN, interrupted \in BOOLEAN,
          environment \in BOOLEAN,
          numbers \in {<<<<"+15550001">>, <<>>>>, <<<<>>, <<"+15550002">>>>} :
          act = [name |-> "listen", pc |-> "run",
                 action_config |-> numbers[1], params |-> numbers[2],
                 coach_phone_number |-> "", answers |-> <<>>,
                 user_message_tracker |-> tracker,
                 environment |-> environment,
                 interrupted |-> interrupted,
                 decided |-> FALSE, interrupted_at_decision |-> FALSE,
                 requests |-> <<>>, stream_started |-> FALSE,
                 coach_called |-> FALSE, failure |-> "",
                 success |-> "none", message |-> ""]

Listening == act.name = "listen" /\ act.pc \notin {"returned", "raised"}

\* The user talks over the last bot message.
ListenInterrupt ==
    /\ Listening
    /\ ~act.interrupted
    /\ act' = [act EXCEPT !.interrupted = TRUE]
    /\ UNCHANGED connection

\* Lines 262-267: with a tracker run waits on it; without one it goes
\* straight to the try of line 280.
ListenEnter ==
    /\ Listening
    /\ act.pc = "run"
    /\ LET number == GetCoachPhoneNumber(act.action_config, act.params) IN
       act' = IF act.user_message_tracker
              THEN [act EXCEPT !.pc = "waiting",
                               !.coach_phone_number = number]
              ELSE [act EXCEPT !.pc = "start", !.decided = TRUE,
                               !.coach_phone_number = number,
                               !.interrupted_at_decision = act.interrupted]
    /\ UNCHANGED connection

\* Lines 267-278: the wait returns and the transcript is asked.
ListenTrackerReleases ==
    /\ Listening
    /\ act.pc = "waiting"
    /\ act' = IF act.interrupted
              THEN [act EXCEPT !.pc = "returned", !.decided = TRUE,
                               !.interrupted_at_decision = TRUE,
                               !.success = "False",
                               !.message = "User interrupted"]
              ELSE [act EXCEPT !.pc = "start", !.decided = TRUE,
                               !.interrupted_at_decision = FALSE]
    /\ UNCHANGED connection

\* start_stream, lines 186-210: the request to stream the call.
StartStream ==
    /\ Listening
    /\ act.pc = "start"
    /\ \E status \in {"200", "201", "400", "500"} :
          IF status \in {"200", "201"}
          THEN act' = [act EXCEPT
                         !.requests = Append(@, "POST Streams"),
                         !.answers = Append(@, status),
                         !.stream_started = TRUE,
                         !.pc = "coach"]
          ELSE LET text == "Failed to start stream on call"
                   caught == OnException(text)
               IN  act' = [act EXCEPT
                             !.requests = Append(@, "POST Streams"),
                             !.answers = Append(@, status),
                             !.failure = text,
                             !.pc = caught.pc,
                             !.success = caught.success,
                             !.message = caught.message]
    /\ UNCHANGED connection

\* start_stream, lines 212-248, and run, lines 282-285: the environment
\* is read and the coach is called.
CallCoach ==
    /\ Listening
    /\ act.pc = "coach"
    /\ IF ~act.environment
       THEN LET text == "Missing required environment variables"
                caught == OnException(text)
            IN  act' = [act EXCEPT
                          !.failure = text,
                          !.pc = caught.pc,
                          !.success = caught.success,
                          !.message = caught.message]
       ELSE \E placed \in BOOLEAN :
              IF placed
              THEN act' = [act EXCEPT
                             !.requests = Append(@, "calls.create"),
                             !.coach_called = TRUE,
                             !.pc = "returned",
                             !.success = "True"]
              ELSE LET text == "TwilioRestException"
                       caught == OnException(text)
                   IN  act' = [act EXCEPT
                                 !.requests = Append(@, "calls.create"),
                                 !.failure = text,
                                 !.pc = caught.pc,
                                 !.success = caught.success,
                                 !.message = caught.message]
    /\ UNCHANGED connection

ListenNext ==
    \/ ListenInterrupt
    \/ ListenEnter
    \/ ListenTrackerReleases
    \/ StartStream
    \/ CallCoach

ListenSpec == ListenInit /\ [][ListenNext]_vars

(***************************************************************************)
(* C28.  A failure of start_stream never leaves run as an exception: it    *)
(* gives a response with success=False and the text of the exception as    *)
(* message; success=True is returned only when the stream was started and  *)
(* the coach was called.                                                   *)
(***************************************************************************)
C28_StartStreamFailureIsReported ==
    act.name = "listen"
    => /\ act.pc # "raised"
       /\ act.failure # ""
             => /\ act.pc = "returned"
                /\ act.success = "False"
                /\ act.message = act.failure
       /\ act.success = "True"
             => /\ act.pc = "returned"
                /\ act.failure = ""
                /\ act.stream_started
                /\ act.coach_called

\* The stream was started, the environment lacked a variable, and run
\* answered with the text of the exception.
C28_Witness ==
    /\ act.name = "listen"
    /\ act.pc = "returned"
    /\ act.stream_started
    /\ act.failure = "Missing required environment variables"
    /\ act.message = act.failure
    /\ act.success = "False"

(***************************************************************************)
(* C29.  With or without a user-message tracker, when the last bot message *)
(* was interrupted at the moment run decides to go on, the stream is not   *)
(* started and the coach is not called: run makes no Twilio request and    *)
(* returns success=False with the message 'User interrupted'.              *)
(***************************************************************************)
C29_InterruptedNeverStreams ==
    (act.name = "listen" /\ act.decided /\ act.interrupted_at_decision)
    => /\ act.requests = <<>>
       /\ act.pc = "returned"
       /\ act.success = "False"
       /\ act.message = "User interrupted"

=============================================================================
